---- MODULE Spec2Model ----
(***************************************************************************)
(* The torrent lifecycle state machine of librqbit:                        *)
(* crates/librqbit/src/torrent_state/mod.rs (ManagedTorrent).              *)
(*                                                                         *)
(* The lifecycle record is one ManagedTorrentState behind a RwLock.  A     *)
(* write section that moves the phase out with take() is modelled in two   *)
(* steps (take, then install and unlock) with the lock held in between;    *)
(* every other write section has no intermediate phase and is one step.    *)
(* Read sections need the lock to be free of a writer.                     *)
(***************************************************************************)
EXTENDS Integers, Sequences, FiniteSets, TLC

\* Bounds of the exploration.
TotalBytes == 1      \* info.lengths.total_length() of the torrent explored
MaxObjects == 5      \* initializing instances, tasks and live sessions ever created

VARIABLES
    state,      \* ManagedTorrentLocked.state, the current phase
    w,          \* the write section in progress (holder of locked.write())
    inits,      \* per TorrentStateInitializing instance: the start call suspended before "Recurse."
    tasks,      \* the spawned initialize_and_start tasks
    sessions,   \* the TorrentStateLive sessions with their one-shot channel and watcher
    wuc,        \* the wait_until_completed call
    alive,      \* a strong Arc<ManagedTorrent> still exists
    ret,        \* the call that returned in the last step (an event, cleared by the next step)
    resp        \* the TorrentStats returned in the last step (an event)

vars == <<state, w, inits, tasks, sessions, wuc, alive, ret, resp>>

----------------------------------------------------------------------------
\* Error values (anyhow::Error) and their texts.

NoErr == [kind |-> "none", n |-> 0]
CheckErr(t) == [kind |-> "check", n |-> t]     \* the failure of task t's init.check()
FatalErr(s) == [kind |-> "fatal", n |-> s]     \* the failure sent by live session s

NoText == [k |-> "absent", e |-> NoErr, lit |-> ""]
\* format!("{:?}", e)
DebugFmt(e) == [k |-> "debug", e |-> e, lit |-> ""]
Literal(str) == [k |-> "literal", e |-> NoErr, lit |-> str]

----------------------------------------------------------------------------
\* enum ManagedTorrentState; checked is the checked_bytes counter of the
\* initializing instance the phase holds

Initializing(i) == [tag |-> "Initializing", init |-> i, live |-> 0, have |-> 0, err |-> NoErr, checked |-> 0]
Paused(h) == [tag |-> "Paused", init |-> 0, live |-> 0, have |-> h, err |-> NoErr, checked |-> 0]
Live(s) == [tag |-> "Live", init |-> 0, live |-> s, have |-> 0, err |-> NoErr, checked |-> 0]
Error(e) == [tag |-> "Error", init |-> 0, live |-> 0, have |-> 0, err |-> e, checked |-> 0]
None == [tag |-> "None", init |-> 0, live |-> 0, have |-> 0, err |-> NoErr, checked |-> 0]

\* std::mem::replace(self, Self::None): the phase left behind
take(st) == None

\* a slip: the live session is built from an empty snapshot
assert_paused_resets(st) == 0

\* assert_paused: the Paused snapshot moved out (a panic otherwise)
assert_paused(st) == st.have

----------------------------------------------------------------------------
\* Records of the model.  In ret, sp is the start_paused flag of a start call
\* that returned success, and FALSE elsewhere.

NoW == [op |-> "none", sp |-> FALSE, hops |-> 0, taken |-> None, s |-> 0, err |-> NoErr]

NoRet == [op |-> "none", from |-> "none", sp |-> FALSE, res |-> "none",
          err |-> NoErr, text |-> NoText, hops |-> 0, id |-> 0]

Ret(op, from, sp, res, err, text, hops, id) ==
    [op |-> op, from |-> from, sp |-> sp, res |-> res,
     err |-> err, text |-> text, hops |-> hops, id |-> id]

\* a slip: total_bytes is filled from the progress counter
TorrentStats_total_from_progress(state_, error, progress_bytes, finished, live_) ==
    [total_bytes |-> progress_bytes, state |-> state_, error |-> error,
     progress_bytes |-> progress_bytes, finished |-> finished, live |-> live_]

\* TorrentStats (live: the session whose LiveStats it carries, 0 for None)
TorrentStats(state_, error, progress_bytes, finished, live_) ==
    [total_bytes |-> TotalBytes, state |-> state_, error |-> error,
     progress_bytes |-> progress_bytes, finished |-> finished, live |-> live_]

\* what one read section returned: with_state(tag), stats(), live(), with_chunk_tracker()
NoStats == [called |-> FALSE, phase |-> "", stats |-> TorrentStats("", NoText, 0, FALSE, 0),
            live |-> 0, chunks |-> ""]

\* TorrentStateInitializing::new(info, only_files), with the start call that
\* created it from Error and has not yet made its recursive call
NewInit(sp, hops) == [pend |-> TRUE, sp |-> sp, hops |-> hops]

\* spawn("initialize_and_start", ...): the task, and what start returned when spawning it
NewTask(i, sp) == [init |-> i, sp |-> sp, pc |-> "checking", returned |-> "ok"]

\* TorrentStateLive::new(paused, tx) with spawn_fatal_errors_receiver(rx) and
\* spawn_peer_adder(live, ..); sentLive: the failure was sent while the session
\* was the current phase of a reachable controller
NewLive(h) == [have |-> h, paused |-> FALSE, pauseInvoked |-> FALSE,
               chan |-> "open", sentLive |-> FALSE, watcher |-> "waiting",
               adder |-> "spawned"]

Unlocked == w.op = "none"

\* the exploration may still create an instance, a task or a session
Room == Len(inits) + Len(tasks) + Len(sessions) < MaxObjects


----------------------------------------------------------------------------
\* The live session (crates/librqbit/src/torrent_state/live), as the controller uses it.

\* live.pause() returning Ok(paused): the session stops and drops its fatal-error sender
LivePauseOk(ss, s) ==
    [ss EXCEPT ![s].paused = TRUE, ![s].pauseInvoked = TRUE,
               ![s].chan = IF @ = "open" THEN "closed" ELSE @]

\* live.pause() returning Err: the session is left as it was
LivePauseErr(ss, s) == [ss EXCEPT ![s].pauseInvoked = TRUE]

\* a strong Arc<TorrentStateLive> to session s is held by the record or by a call in progress
Referenced(s) ==
    \/ alive /\ state.tag = "Live" /\ state.live = s
    \/ w.taken.tag = "Live" /\ w.taken.live = s
    \/ wuc.pc = "live_wait" /\ wuc.live = s

\* the session makes progress
Download(s) ==
    /\ ~sessions[s].paused
    /\ sessions[s].chan # "closed"
    /\ sessions[s].have < TotalBytes
    /\ sessions' = [sessions EXCEPT ![s].have = @ + 1]
    /\ ret' = NoRet
    /\ resp' = NoStats
    /\ UNCHANGED <<state, w, inits, tasks, wuc, alive>>

\* the running session sends a fatal failure on its one-shot channel
FatalError(s) ==
    /\ ~sessions[s].paused
    /\ sessions[s].chan = "open"
    /\ sessions' = [sessions EXCEPT
                       ![s].chan = "sent",
                       ![s].sentLive = alive /\ state.tag = "Live" /\ state.live = s]
    /\ ret' = NoRet
    /\ resp' = NoStats
    /\ UNCHANGED <<state, w, inits, tasks, wuc, alive>>

\* the last strong reference to a session goes away: its sender is dropped unused
SessionDropped(s) ==
    /\ ~Referenced(s)
    /\ sessions[s].chan = "open"
    /\ sessions' = [sessions EXCEPT ![s].chan = "closed"]
    /\ ret' = NoRet
    /\ resp' = NoStats
    /\ UNCHANGED <<state, w, inits, tasks, wuc, alive>>

\* the last external handle to the controller is dropped; tasks and calls in
\* progress hold strong references
DropController ==
    /\ alive
    /\ Unlocked
    /\ \A t \in 1..Len(tasks) : tasks[t].pc # "checking"
    /\ \A i \in 1..Len(inits) : ~inits[i].pend
    /\ wuc.pc = "idle"
    /\ alive' = FALSE
    /\ ret' = NoRet
    /\ resp' = NoStats
    /\ UNCHANGED <<state, w, inits, tasks, sessions, wuc>>

----------------------------------------------------------------------------
\* ManagedTorrent::start

\* a slip: the instance installed is not the one just created
start_error_install_stale(i) == Initializing(i - 1)

\* line 292: the phase installed by start from Error
start_error_install(i) == Initializing(i)

\* lines 282 / 261: the phase installed together with a new live session
install_live(s) == Live(s)

\* a slip: a Live phase is verified again instead of being refused
start_branch_live_restarts(st) == IF st.tag = "Live" THEN "Initializing" ELSE st.tag

\* line 232: the arm of the match that start takes
start_branch(st) == st.tag

\* a slip: the guard is moved into the task, the lock held while it verifies
start_initializing_guard_kept(g) == [g EXCEPT !.op = "verifying"]

\* line 238: drop(g) before the task is spawned, the write section is over
start_initializing_guard(g) == NoW

\* lines 232-299, entered with the lock free; inits0 is inits with the
\* caller's own suspended recursion (if any) resumed
start(sp, hops, inits0) ==
    /\ alive
    /\ Unlocked
    /\ CASE start_branch(state) = "Live" ->
              /\ ret' = Ret("start", state.tag, FALSE, "already_live", NoErr,
                            Literal("torrent is already live"), hops, 0)
              /\ inits' = inits0
              /\ UNCHANGED <<state, w, tasks, sessions>>
         [] start_branch(state) = "Initializing" ->
              /\ Room
              /\ tasks' = Append(tasks, NewTask(state.init, sp))
              /\ ret' = Ret("start", state.tag, sp, "ok", NoErr, NoText,
                            hops, Len(tasks) + 1)
              /\ inits' = inits0
              /\ w' = start_initializing_guard(w)
              /\ UNCHANGED <<state, sessions>>
         [] start_branch(state) = "Paused" ->
              /\ Room
              /\ w' = [NoW EXCEPT !.op = "start", !.sp = sp, !.hops = hops, !.taken = state]
              /\ state' = take(state)
              /\ ret' = NoRet
              /\ inits' = inits0
              /\ UNCHANGED <<tasks, sessions>>
         [] start_branch(state) = "Error" ->
              /\ Room
              /\ inits' = Append(inits0, NewInit(sp, hops + 1))
              /\ state' = start_error_install(Len(inits0) + 1)
              /\ ret' = NoRet
              /\ UNCHANGED <<w, tasks, sessions>>
         [] OTHER ->
              /\ ret' = Ret("start", state.tag, FALSE, "empty", NoErr,
                            Literal("bug: torrent is in empty state"), hops, 0)
              /\ inits' = inits0
              /\ UNCHANGED <<state, w, tasks, sessions>>
    /\ resp' = NoStats
    /\ UNCHANGED <<wuc, alive>>

\* a caller invokes start
Start ==
    \E sp \in BOOLEAN : start(sp, 0, inits)

\* line 296: the recursive call of a start that found Error
StartRecurse ==
    \E i \in 1..Len(inits) :
        /\ inits[i].pend
        /\ start(inits[i].sp, inits[i].hops, [inits EXCEPT ![i].pend = FALSE])

\* lines 279-285: the rest of the Paused branch, the lock still held
StartInstallLive ==
    /\ w.op = "start"
    /\ sessions' = Append(sessions, NewLive(assert_paused(w.taken)))
    /\ state' = install_live(Len(sessions) + 1)
    /\ w' = NoW
    /\ ret' = Ret("start", w.taken.tag, w.sp, "ok", NoErr, NoText, w.hops, Len(sessions) + 1)
    /\ resp' = NoStats
    /\ UNCHANGED <<inits, tasks, wuc, alive>>

----------------------------------------------------------------------------
\* The initialize_and_start task spawned by start (lines 241-275)

\* a slip: start_paused is ignored once verification succeeds
initialize_and_start_ok_ignores_flag(st, sp, h, s) ==
    IF st.tag # "Initializing" THEN st ELSE Live(s)

\* lines 246-267: init.check() returned Ok(paused) with h bytes present
initialize_and_start_ok(st, sp, h, s) ==
    IF st.tag # "Initializing" THEN st
    ELSE IF sp THEN Paused(h)
    ELSE install_live(s)

\* a slip: the failure is returned but not recorded in the phase
initialize_and_start_err_unrecorded(st, err) == st

\* a slip: the Error phase is installed without the cause
initialize_and_start_err_drops_cause(st, err) == Error(NoErr)

\* lines 268-272: init.check() returned Err(err)
initialize_and_start_err(st, err) == Error(err)

\* init.check() of a running task advances the checked_bytes counter of the
\* instance it verifies, observable while that instance is the phase
CheckProgress(i) ==
    /\ state.tag = "Initializing"
    /\ state.init = i
    /\ \E t \in 1..Len(tasks) : tasks[t].init = i /\ tasks[t].pc = "checking"
    /\ state.checked < TotalBytes
    /\ state' = [state EXCEPT !.checked = @ + 1]
    /\ ret' = NoRet
    /\ resp' = NoStats
    /\ UNCHANGED <<w, inits, tasks, sessions, wuc, alive>>

TaskOk(t) ==
    /\ tasks[t].pc = "checking"
    /\ Unlocked
    /\ \E h \in 0..TotalBytes :
        LET spawns == state.tag = "Initializing" /\ ~tasks[t].sp
            s == Len(sessions) + 1
        IN  /\ spawns => Room
            /\ state' = initialize_and_start_ok(state, tasks[t].sp, h, s)
            /\ sessions' = IF spawns THEN Append(sessions, NewLive(h)) ELSE sessions
            /\ ret' = Ret("task", state.tag, tasks[t].sp, "ok", NoErr, NoText, 0, t)
    /\ tasks' = [tasks EXCEPT ![t].pc = "done"]
    /\ resp' = NoStats
    /\ UNCHANGED <<w, inits, wuc, alive>>

TaskErr(t) ==
    /\ tasks[t].pc = "checking"
    /\ Unlocked
    /\ state' = initialize_and_start_err(state, CheckErr(t))
    /\ tasks' = [tasks EXCEPT ![t].pc = "done"]
    /\ ret' = Ret("task", state.tag, tasks[t].sp, "err", CheckErr(t),
                  DebugFmt(CheckErr(t)), 0, t)
    /\ resp' = NoStats
    /\ UNCHANGED <<w, inits, sessions, wuc, alive>>


----------------------------------------------------------------------------
\* ManagedTorrent::pause (lines 302-321)

\* a slip: the Paused phase is installed without the session's byte count
pause_install_empty(h) == Paused(0)

\* line 307: the phase installed after live.pause() returned Ok(paused)
pause_install(h) == Paused(h)

\* a slip: a failing live.pause() is handled like a fatal failure
pause_failed_becomes_error(st) == Error(NoErr)

\* line 306: live.pause()? returned early, nothing was assigned
pause_failed(st) == st

pause ==
    /\ alive
    /\ Unlocked
    /\ CASE state.tag = "Live" ->
              \E ok \in BOOLEAN :
                  IF ok
                  THEN /\ sessions' = LivePauseOk(sessions, state.live)
                       /\ state' = pause_install(sessions[state.live].have)
                       /\ ret' = Ret("pause", "Live", FALSE, "ok", NoErr, NoText, 0, state.live)
                  ELSE /\ sessions' = LivePauseErr(sessions, state.live)
                       /\ state' = pause_failed(state)
                       /\ ret' = Ret("pause", "Live", FALSE, "err", NoErr,
                                     Literal("live.pause() failed"), 0, state.live)
         [] state.tag = "Initializing" ->
              /\ ret' = Ret("pause", "Initializing", FALSE, "err", NoErr,
                            Literal("torrent is initializing, can't pause"), 0, 0)
              /\ UNCHANGED <<state, sessions>>
         [] state.tag = "Paused" ->
              /\ ret' = Ret("pause", "Paused", FALSE, "err", NoErr,
                            Literal("torrent is already paused"), 0, 0)
              /\ UNCHANGED <<state, sessions>>
         [] state.tag = "Error" ->
              /\ ret' = Ret("pause", "Error", FALSE, "err", NoErr,
                            Literal("can't pause torrent in error state"), 0, 0)
              /\ UNCHANGED <<state, sessions>>
         [] OTHER ->
              /\ ret' = Ret("pause", "None", FALSE, "err", NoErr,
                            Literal("bug: torrent is in empty state"), 0, 0)
              /\ UNCHANGED <<state, sessions>>
    /\ resp' = NoStats
    /\ UNCHANGED <<w, inits, tasks, wuc, alive>>

----------------------------------------------------------------------------
\* The fatal_errors_receiver task (lines 174-194) and stop_with_error (lines 142-164)

\* a slip: stop_with_error returns after take() without installing Error
stop_with_error_install_forgotten(error) == None

\* line 163: the phase installed at the end of stop_with_error
stop_with_error_install(error) == Error(error)

\* rx.await returned Ok(e), the weak reference upgraded, and stop_with_error
\* took the lock and the phase (lines 143-161)
StopWithErrorTake(s) ==
    /\ sessions[s].watcher = "waiting"
    /\ sessions[s].chan = "sent"
    /\ alive
    /\ Unlocked
    /\ \E ok \in BOOLEAN :
        LET ss == [sessions EXCEPT ![s].watcher = "stopping"]
        IN  sessions' = IF state.tag # "Live" THEN ss
                        ELSE IF ok THEN LivePauseOk(ss, state.live)
                        ELSE LivePauseErr(ss, state.live)
    /\ w' = [NoW EXCEPT !.op = "stop_with_error", !.taken = state, !.s = s,
                        !.err = FatalErr(s)]
    /\ state' = take(state)
    /\ ret' = NoRet
    /\ resp' = NoStats
    /\ UNCHANGED <<inits, tasks, wuc, alive>>

\* line 163 and the release of the lock
StopWithErrorInstall ==
    /\ w.op = "stop_with_error"
    /\ state' = stop_with_error_install(w.err)
    /\ sessions' = [sessions EXCEPT ![w.s].watcher = "done"]
    /\ w' = NoW
    /\ ret' = Ret("stop_with_error", w.taken.tag, FALSE, "ok", w.err, NoText, 0, w.s)
    /\ resp' = NoStats
    /\ UNCHANGED <<inits, tasks, wuc, alive>>

\* a slip: a watcher that cannot stop the torrent empties the phase
watcher_exit_clears(st) == None

\* lines 184 and 188-191: the phase when the watcher returns without
\* calling stop_with_error
watcher_exit(st) == st

\* line 184: rx.await returned Err, the sender was dropped without a failure
WatcherClosed(s) ==
    /\ sessions[s].watcher = "waiting"
    /\ sessions[s].chan = "closed"
    /\ sessions' = [sessions EXCEPT ![s].watcher = "done"]
    /\ state' = watcher_exit(state)
    /\ ret' = Ret("watcher", state.tag, FALSE, "closed", NoErr, NoText, 0, s)
    /\ resp' = NoStats
    /\ UNCHANGED <<w, inits, tasks, wuc, alive>>

\* lines 188-190: a failure arrived but state.upgrade() is None
WatcherUnreachable(s) ==
    /\ sessions[s].watcher = "waiting"
    /\ sessions[s].chan = "sent"
    /\ ~alive
    /\ sessions' = [sessions EXCEPT ![s].watcher = "done"]
    /\ state' = watcher_exit(state)
    /\ ret' = Ret("watcher", state.tag, FALSE, "unreachable", FatalErr(s), NoText, 0, s)
    /\ resp' = NoStats
    /\ UNCHANGED <<w, inits, tasks, wuc, alive>>

----------------------------------------------------------------------------
\* The external_peer_adder task (lines 196-230) of session s.  Its Weak
\* reference upgrades while a strong Arc<TorrentStateLive> exists; the peers of
\* the initial list and of the stream are the environment's.

\* live.add_peer_if_not_seen(peer): fails once the session is closed
AddPeerIfNotSeen(s) == IF sessions[s].paused THEN "err" ELSE "ok"

\* lines 207-215 and 223-227: the first poll of the task, up to the first
\* peer_rx.next().await
peer_adder_initial(upgraded, has_peers, added, has_rx) ==
    IF ~upgraded THEN [pc |-> "done", res |-> "err", text |-> Literal("no longer live")]
    ELSE IF has_peers /\ added = "err"
         THEN [pc |-> "done", res |-> "err", text |-> Literal("torrent closed")]
    ELSE IF has_rx THEN [pc |-> "waiting", res |-> "none", text |-> NoText]
    ELSE [pc |-> "done", res |-> "ok", text |-> NoText]

\* lines 216-222: peer_rx.next().await returned Some(peer)
peer_adder_next(upgraded, added) ==
    IF ~upgraded THEN [pc |-> "done", res |-> "ok", text |-> NoText]
    ELSE IF added = "err"
         THEN [pc |-> "done", res |-> "err", text |-> Literal("torrent closed")]
    ELSE [pc |-> "waiting", res |-> "none", text |-> NoText]

\* the return of the task (from: the point it returned at), if it returned
peer_adder_ret(r, from, s) ==
    IF r.pc = "done"
    THEN Ret("external_peer_adder", from, FALSE, r.res, NoErr, r.text, 0, s)
    ELSE NoRet

PeerAdderInitial(s) ==
    /\ sessions[s].adder = "spawned"
    /\ \E has_peers, has_rx \in BOOLEAN :
        LET r == peer_adder_initial(Referenced(s), has_peers, AddPeerIfNotSeen(s), has_rx)
        IN  /\ sessions' = [sessions EXCEPT ![s].adder = r.pc]
            /\ ret' = peer_adder_ret(r, "initial", s)
    /\ resp' = NoStats
    /\ UNCHANGED <<state, w, inits, tasks, wuc, alive>>

PeerAdderNext(s) ==
    /\ sessions[s].adder = "waiting"
    /\ LET r == peer_adder_next(Referenced(s), AddPeerIfNotSeen(s))
       IN  /\ sessions' = [sessions EXCEPT ![s].adder = r.pc]
           /\ ret' = peer_adder_ret(r, "peer", s)
    /\ resp' = NoStats
    /\ UNCHANGED <<state, w, inits, tasks, wuc, alive>>

\* line 216: peer_rx.next().await returned None, the stream has ended
PeerAdderStreamEnd(s) ==
    /\ sessions[s].adder = "waiting"
    /\ sessions' = [sessions EXCEPT ![s].adder = "done"]
    /\ ret' = Ret("external_peer_adder", "end", FALSE, "ok", NoErr, NoText, 0, s)
    /\ resp' = NoStats
    /\ UNCHANGED <<state, w, inits, tasks, wuc, alive>>

----------------------------------------------------------------------------
\* Read sections: stats (lines 323-362), with_state, live, with_chunk_tracker

\* LiveStats::from(l).snapshot.have_bytes
LiveHaveBytes(s) == sessions[s].have

stats(st) ==
    CASE st.tag = "Initializing" ->
             TorrentStats("initializing", NoText, st.checked, FALSE, 0)
      [] st.tag = "Paused" ->
             TorrentStats("paused", NoText, st.have, st.have = TotalBytes, 0)
      [] st.tag = "Live" ->
             TorrentStats("live", NoText, LiveHaveBytes(st.live),
                          LiveHaveBytes(st.live) = TotalBytes, st.live)
      [] st.tag = "Error" ->
             TorrentStats("error", DebugFmt(st.err), 0, FALSE, 0)
      [] OTHER ->
             TorrentStats("error", Literal("bug: torrent in broken \"None\" state"),
                          0, FALSE, 0)

\* lines 134-140
live(st) == IF st.tag = "Live" THEN st.live ELSE 0

\* lines 122-132
with_chunk_tracker(st) ==
    CASE st.tag = "Paused" -> "ok"
      [] st.tag = "Live" -> IF sessions[st.live].paused THEN "err" ELSE "ok"
      [] OTHER -> "no_chunk_tracker"

\* lines 114-116, with f the phase's tag
with_state(st) == st.tag

\* a read section (locked.read()) and what each reader makes of the phase it holds
Read ==
    /\ alive
    /\ Unlocked
    /\ resp' = [called |-> TRUE, phase |-> with_state(state), stats |-> stats(state),
                live |-> live(state), chunks |-> with_chunk_tracker(state)]
    /\ ret' = NoRet
    /\ UNCHANGED <<state, w, inits, tasks, sessions, wuc, alive>>

----------------------------------------------------------------------------
\* ManagedTorrent::wait_until_completed (lines 364-381)

\* the call in progress: not started or returned ("idle"), in the sleep of
\* line 376 ("sleeping"), or in live.wait_until_completed() of session live
NoWuc == [pc |-> "idle", live |-> 0]

\* a slip: a Paused phase ends the wait with a failure
wuc_sample_paused_bails(st) ==
    CASE st.tag = "Initializing" -> [k |-> "none", live |-> 0, text |-> NoText]
      [] st.tag = "Live" -> [k |-> "some", live |-> st.live, text |-> NoText]
      [] OTHER -> [k |-> "bail", live |-> 0, text |-> DebugFmt(st.err)]

\* lines 367-372: what one sample of the phase yields
wuc_sample(st) ==
    CASE st.tag \in {"Initializing", "Paused"} -> [k |-> "none", live |-> 0, text |-> NoText]
      [] st.tag = "Live" -> [k |-> "some", live |-> st.live, text |-> NoText]
      [] st.tag = "Error" -> [k |-> "bail", live |-> 0, text |-> DebugFmt(st.err)]
      [] OTHER -> [k |-> "bail", live |-> 0, text |-> Literal("bug: torrent state is None")]

\* lines 373-376 and the return of line 372
wuc_step(st) ==
    LET r == wuc_sample(st)
    IN  /\ wuc' = CASE r.k = "none" -> [pc |-> "sleeping", live |-> 0]
                    [] r.k = "some" -> [pc |-> "live_wait", live |-> r.live]
                    [] OTHER -> NoWuc
        /\ ret' = IF r.k = "bail"
                  THEN Ret("wait_until_completed", st.tag, FALSE, "err", st.err, r.text, 0, 0)
                  ELSE NoRet

\* live.wait_until_completed() returns once the session has every byte
LiveCompleted(s) == sessions[s].have = TotalBytes

\* the call and its first sample
WucCall ==
    /\ alive
    /\ wuc.pc = "idle"
    /\ Unlocked
    /\ wuc_step(state)
    /\ resp' = NoStats
    /\ UNCHANGED <<state, w, inits, tasks, sessions, alive>>

\* the sleep of line 376 has elapsed: the next pass of the loop
WucSample ==
    /\ wuc.pc = "sleeping"
    /\ Unlocked
    /\ wuc_step(state)
    /\ resp' = NoStats
    /\ UNCHANGED <<state, w, inits, tasks, sessions, alive>>

\* lines 379-380
WucLiveDone ==
    /\ wuc.pc = "live_wait"
    /\ LiveCompleted(wuc.live)
    /\ wuc' = NoWuc
    /\ ret' = Ret("wait_until_completed", "Live", FALSE, "ok", NoErr, NoText, 0, wuc.live)
    /\ resp' = NoStats
    /\ UNCHANGED <<state, w, inits, tasks, sessions, alive>>

----------------------------------------------------------------------------
\* ManagedTorrentBuilder::build (lines 459-488): the controller starts Initializing

Init ==
    /\ state = Initializing(1)
    /\ w = NoW
    /\ inits = <<[pend |-> FALSE, sp |-> FALSE, hops |-> 0]>>
    /\ tasks = <<>>
    /\ sessions = <<>>
    /\ wuc = NoWuc
    /\ alive = TRUE
    /\ ret = NoRet
    /\ resp = NoStats

\* the lifecycle: start, pause, the spawned tasks and the live sessions
Lifecycle ==
    \/ Start
    \/ StartRecurse
    \/ StartInstallLive
    \/ \E t \in 1..Len(tasks) : TaskOk(t)
    \/ \E t \in 1..Len(tasks) : TaskErr(t)
    \/ pause
    \/ \E s \in 1..Len(sessions) : StopWithErrorTake(s)
    \/ StopWithErrorInstall
    \/ \E s \in 1..Len(sessions) : WatcherClosed(s)
    \/ \E s \in 1..Len(sessions) : Download(s)
    \/ \E s \in 1..Len(sessions) : FatalError(s)
    \/ \E s \in 1..Len(sessions) : SessionDropped(s)

\* the lifecycle with its readers and the drop of the controller
Next ==
    \/ Lifecycle
    \/ Read
    \/ DropController
    \/ \E s \in 1..Len(sessions) : WatcherUnreachable(s)

Spec == Init /\ [][Next]_vars

\* one wait_until_completed call with the steps of the lifecycle that change
\* the phase or the progress of a session
NextWait ==
    \/ Start
    \/ StartRecurse
    \/ StartInstallLive
    \/ \E t \in 1..Len(tasks) : TaskOk(t)
    \/ \E t \in 1..Len(tasks) : TaskErr(t)
    \/ pause
    \/ \E s \in 1..Len(sessions) : StopWithErrorTake(s)
    \/ StopWithErrorInstall
    \/ \E s \in 1..Len(sessions) : Download(s)
    \/ \E s \in 1..Len(sessions) : FatalError(s)
    \/ WucCall
    \/ WucSample
    \/ WucLiveDone

SpecWait == Init /\ [][NextWait]_vars

\* the lifecycle with its readers and the progress of the verification
NextStats ==
    \/ Lifecycle
    \/ Read
    \/ \E i \in 1..Len(inits) : CheckProgress(i)

SpecStats == Init /\ [][NextStats]_vars

\* start, pause and the verification tasks, with the peer adders of the
\* sessions they create and the drop of the controller
NextPeers ==
    \/ Start
    \/ StartRecurse
    \/ StartInstallLive
    \/ \E t \in 1..Len(tasks) : TaskOk(t)
    \/ \E t \in 1..Len(tasks) : TaskErr(t)
    \/ pause
    \/ DropController
    \/ \E s \in 1..Len(sessions) : PeerAdderInitial(s)
    \/ \E s \in 1..Len(sessions) : PeerAdderNext(s)
    \/ \E s \in 1..Len(sessions) : PeerAdderStreamEnd(s)

SpecPeers == Init /\ [][NextPeers]_vars

----------------------------------------------------------------------------
\* The claims.

Phases == {"Initializing", "Paused", "Live", "Error"}

\* C1: whenever no write section is in progress the phase is one of
\* Initializing, Paused, Live, Error, and what a read section returned was
\* made from such a phase: never the None placeholder, never its "bug" text.
C1_NeverEmpty ==
    /\ Unlocked => state.tag \in Phases
    /\ resp.called =>
         /\ resp.phase \in Phases
         /\ resp.stats.state \in {"initializing", "paused", "live", "error"}
         /\ resp.stats.error.k # "literal"

\* C1 witness: stop_with_error took a Live phase out and has installed Error
C1_Witness ==
    /\ ret.op = "stop_with_error"
    /\ ret.from = "Live"
    /\ Unlocked
    /\ state.tag = "Error"

\* C2 as claimed: a verification task that finds the phase no longer
\* Initializing leaves it unchanged and reports no error.
C2_TaskKeepsRacingPhase ==
    [][(ret'.op = "task" /\ state.tag # "Initializing")
         => (state' = state /\ ret'.res = "ok")]_vars

C5_PauseIffLive ==
    ret.op = "pause" =>
        /\ (ret.res = "ok") <=> (ret.from = "Live")
        /\ ret.res = "ok" => state.tag = "Paused"

\* C5 amended: pause succeeds only from Live; from Live it succeeds exactly
\* when the session's own pause succeeds, and then the phase is Paused with
\* the session's byte count; when the session's pause fails, pause fails and
\* the phase stays that Live session; from every other phase pause fails.
C5_Amended ==
    ret.op = "pause" =>
        /\ ret.res \in {"ok", "err"}
        /\ ret.res = "ok" => ret.from = "Live"
        /\ ret.from = "Live" =>
             /\ sessions[ret.id].pauseInvoked
             /\ (ret.res = "ok") <=> sessions[ret.id].paused
             /\ ret.res = "ok" => state = Paused(sessions[ret.id].have)
             /\ ret.res = "err" => state = Live(ret.id)
        /\ ret.from # "Live" => (ret.res = "err" /\ state.tag = ret.from)

\* C5 witness: a pause of a session that has bytes has succeeded
C5_Witness ==
    /\ ret.op = "pause"
    /\ ret.res = "ok"
    /\ state = Paused(TotalBytes)

\* C6 as claimed: when session s sent its failure while it was the current
\* Live phase of a reachable controller, then once stop_with_error is through
\* the session's pause has been invoked and the phase is Error holding that
\* failure; the phase then stays that Error until a start replaces it, and a
\* stats call made in it reports "error" with the failure's text.
C6_FatalSignal ==
    /\ []((ret.op = "stop_with_error" /\ sessions[ret.id].sentLive) =>
            /\ state = Error(FatalErr(ret.id))
            /\ sessions[ret.id].pauseInvoked)
    /\ []((resp.called /\ state.tag = "Error") =>
            /\ resp.stats.state = "error"
            /\ resp.stats.error = DebugFmt(state.err))
    /\ [][(/\ Unlocked
           /\ state.tag = "Error"
           /\ state.err.kind = "fatal"
           /\ sessions[state.err.n].sentLive
           /\ state' # state)
            => state'.tag = "Initializing"]_vars

\* C7: a start that finds Error creates one initializing instance and, in the
\* same write section, installs it as the phase in place of the Error and its
\* cause; nothing else has happened by then: no task, no session, no return,
\* the recursive call still to come.
C7_StartFromError ==
    [][Len(inits') > Len(inits) =>
         /\ Unlocked
         /\ state.tag = "Error"
         /\ Len(inits') = Len(inits) + 1
         /\ state' = Initializing(Len(inits'))
         /\ state'.err = NoErr
         /\ inits'[Len(inits')].pend
         /\ state'.checked = 0
         /\ Unlocked'
         /\ tasks' = tasks
         /\ sessions' = sessions
         /\ ret' = NoRet]_vars

\* C7 witness: start has replaced an Error by a new instance
C7_Witness ==
    /\ Unlocked
    /\ Len(inits) > 1
    /\ state = Initializing(Len(inits))
    /\ inits[Len(inits)].pend

\* C8: a start that finds Live returns "already live" and changes nothing:
\* same phase, no task, no session (so no watcher, no peer adder), no instance.
C8_StartWhileLive ==
    [][(ret'.op = "start" /\ Unlocked /\ state.tag = "Live") =>
         /\ ret'.res = "already_live"
         /\ ret'.from = "Live"
         /\ state' = state
         /\ w' = w
         /\ tasks' = tasks
         /\ sessions' = sessions
         /\ Len(inits') = Len(inits)]_vars

\* C8 witness: a start was refused while Live
C8_Witness ==
    /\ ret.op = "start"
    /\ ret.res = "already_live"
    /\ state.tag = "Live"

\* C9: a start that finds Paused takes the snapshot out and, the lock still
\* held, installs a new Live session built from exactly that snapshot and
\* returns success, with either start_paused flag; from Paused no task is
\* spawned and no start returns in any other way.
C9_StartFromPaused ==
    /\ [](w.op = "start" => (w.taken.tag = "Paused" /\ state = None))
    /\ [][(Unlocked /\ w'.op = "start") =>
            /\ state.tag = "Paused"
            /\ w'.taken = state
            /\ tasks' = tasks
            /\ sessions' = sessions]_vars
    /\ [][(w.op = "start" /\ w' # w) =>
            /\ Unlocked'
            /\ Len(sessions') = Len(sessions) + 1
            /\ state' = Live(Len(sessions'))
            /\ sessions'[Len(sessions')] = NewLive(w.taken.have)
            /\ tasks' = tasks
            /\ ret' = Ret("start", "Paused", w.sp, "ok", NoErr, NoText,
                          w.hops, Len(sessions'))]_vars
    /\ [][(Unlocked /\ state.tag = "Paused") =>
            /\ Len(tasks') = Len(tasks)
            /\ ret'.op # "start"]_vars

\* C9 witness: after a pause, start with start_paused set is Live again with
\* every byte still counted
C9_Witness ==
    /\ ret.op = "start"
    /\ ret.from = "Paused"
    /\ ret.sp
    /\ state.tag = "Live"
    /\ state.live > 1
    /\ sessions[state.live - 1].paused
    /\ sessions[state.live].have = TotalBytes

\* C10: wait_until_completed returns a failure only from a sample that found
\* Error (with the cause's text) or None; it returns success only from the
\* completion wait of a session a sample found Live, once that wait returned;
\* a sample that finds Initializing or Paused returns nothing and sleeps.
C10_WaitUntilCompleted ==
    /\ [][(ret'.op = "wait_until_completed" /\ ret'.res = "err") =>
            /\ Unlocked
            /\ wuc.pc \in {"idle", "sleeping"}
            /\ wuc'.pc = "idle"
            /\ \/ state.tag = "Error" /\ ret'.text = DebugFmt(state.err)
               \/ state.tag = "None" /\ ret'.text = Literal("bug: torrent state is None")]_vars
    /\ [][(ret'.op = "wait_until_completed" /\ ret'.res # "err") =>
            /\ ret'.res = "ok"
            /\ wuc.pc = "live_wait"
            /\ LiveCompleted(wuc.live)
            /\ ret'.id = wuc.live
            /\ wuc'.pc = "idle"]_vars
    /\ [][(wuc'.pc = "live_wait" /\ wuc.pc # "live_wait") =>
            /\ Unlocked
            /\ wuc.pc \in {"idle", "sleeping"}
            /\ state = Live(wuc'.live)]_vars
    /\ [][(wuc'.pc = "sleeping" /\ wuc.pc # "sleeping") =>
            /\ Unlocked
            /\ wuc.pc = "idle"
            /\ state.tag \in {"Initializing", "Paused"}
            /\ ret' = NoRet]_vars
    /\ [][(wuc.pc = "sleeping" /\ state.tag \in {"Initializing", "Paused"}) =>
            /\ wuc'.pc = "sleeping"
            /\ ret'.op # "wait_until_completed"]_vars
    /\ [][(wuc.pc = "sleeping" /\ wuc'.pc = "idle") =>
            (ret'.op = "wait_until_completed" /\ ret'.res = "err")]_vars

\* C10 witness: the wait returned success for a session found Live
C10_Witness ==
    /\ ret.op = "wait_until_completed"
    /\ ret.res = "ok"
    /\ ret.id > 0
    /\ LiveCompleted(ret.id)

\* C11: what stats returns is a projection of the phase held while it reads:
\* the state text follows the phase (None reads as "error"), the error text is
\* present exactly in state "error", total_bytes is the torrent's length in
\* every phase, progress_bytes is the phase's counter, finished is true exactly
\* when the phase is Paused or Live and progress_bytes equals total_bytes; and
\* the read leaves the phase as it was.
C11_StatsProjection ==
    /\ [](resp.called =>
            /\ resp.stats.state =
                 (CASE state.tag = "Initializing" -> "initializing"
                    [] state.tag = "Paused" -> "paused"
                    [] state.tag = "Live" -> "live"
                    [] OTHER -> "error")
            /\ (resp.stats.error # NoText) <=> (resp.stats.state = "error")
            /\ state.tag = "Error" => resp.stats.error = DebugFmt(state.err)
            /\ resp.stats.total_bytes = TotalBytes
            /\ resp.stats.progress_bytes =
                 (CASE state.tag = "Initializing" -> state.checked
                    [] state.tag = "Paused" -> state.have
                    [] state.tag = "Live" -> sessions[state.live].have
                    [] OTHER -> 0)
            /\ resp.stats.finished <=>
                 (/\ state.tag \in {"Paused", "Live"}
                  /\ resp.stats.progress_bytes = resp.stats.total_bytes))
    /\ [][resp'.called => (Unlocked /\ state' = state /\ w' = w)]_vars

\* C11 witness: stats read an Initializing phase whose counter has reached the
\* torrent's length, and does not report it finished
C11_Witness ==
    /\ resp.called
    /\ state.tag = "Initializing"
    /\ resp.stats.progress_bytes = TotalBytes
    /\ ~resp.stats.finished

\* C12 as claimed: a peer adder that returns after the controller, and with
\* it the session, was dropped returns success, and it does not take the
\* arrival of a further peer to make it return.
C12_PeerAdderEndsOnDrop ==
    [][(ret'.op = "external_peer_adder" /\ ~alive /\ ~Referenced(ret'.id))
         => (ret'.res = "ok" /\ ret'.from # "peer")]_vars

\* C13 as claimed: the recursive call of a start that found Error finds the
\* phase Initializing, never Error again and never Live: no start recurses more
\* than once, and a start that recursed does not fail with "already live".
C13_RecursionOneHop ==
    /\ [][(\E i \in 1..Len(inits) : inits[i].pend /\ ~inits'[i].pend)
            => state.tag = "Initializing"]_vars
    /\ [](\A i \in 1..Len(inits) : inits[i].hops <= 1)
    /\ []((ret.op = "start" /\ ret.hops > 0) => (ret.hops = 1 /\ ret.res = "ok"))

\* C14: the write lock is not held while a verification is in progress: the
\* start that spawns a task has released the lock by the time it returns, the
\* lock is only ever held by the Paused branch of start or by stop_with_error,
\* and whenever a task is verifying and no such section is in progress, a read
\* section, pause and a further start can each run to completion.
C14_LockFreeWhileVerifying ==
    /\ [][Len(tasks') > Len(tasks) =>
            /\ Unlocked
            /\ Unlocked'
            /\ tasks'[Len(tasks')].pc = "checking"
            /\ ret'.op = "start"]_vars
    /\ [](~Unlocked =>
            \/ w.op = "start" /\ w.taken.tag = "Paused"
            \/ w.op = "stop_with_error")
    /\ []((alive /\ Unlocked /\ \E t \in 1..Len(tasks) : tasks[t].pc = "checking") =>
            /\ ENABLED Read
            /\ ENABLED pause
            /\ Room => ENABLED Start)

\* C14 witness: stats was served from the Initializing phase while a task was
\* verifying that instance
C14_Witness ==
    /\ resp.called
    /\ resp.phase = "Initializing"
    /\ \E t \in 1..Len(tasks) : tasks[t].pc = "checking" /\ tasks[t].init = state.init

\* C15: a verification that fails while the phase is still Initializing makes
\* the phase Error holding that failure, and stats made in it reports "error"
\* with the failure's text; from that Error a start can run, and it installs a
\* new Initializing instance; a start that finds an instance spawns a task for
\* it, and a task that succeeds while the phase is Initializing installs
\* Paused (start_paused) or Live.
C15_FailureRecoverable ==
    /\ [][(ret'.op = "task" /\ ret'.res = "err" /\ state.tag = "Initializing") =>
            /\ state' = Error(CheckErr(ret'.id))
            /\ stats(state').state = "error"
            /\ stats(state').error = DebugFmt(CheckErr(ret'.id))]_vars
    /\ []((resp.called /\ state.tag = "Error" /\ state.err.kind = "check") =>
            /\ resp.stats.state = "error"
            /\ resp.stats.error = DebugFmt(state.err))
    /\ []((alive /\ Unlocked /\ Room /\ state.tag = "Error") => ENABLED Start)
    /\ [][(state.tag = "Error" /\ state.err.kind = "check" /\ Len(inits') > Len(inits)) =>
            /\ state' = Initializing(Len(inits'))
            /\ inits'[Len(inits')].pend]_vars
    /\ [][(ret'.op = "start" /\ state.tag = "Initializing") =>
            /\ ret'.res = "ok"
            /\ tasks' = Append(tasks, NewTask(state.init, ret'.sp))]_vars
    /\ [][(ret'.op = "task" /\ ret'.res = "ok" /\ state.tag = "Initializing") =>
            state'.tag = (IF ret'.sp THEN "Paused" ELSE "Live")]_vars

\* C15 witness: no session ever existed, a verification failed, a start
\* installed a second instance, and the verification of that instance has
\* succeeded and installed Paused
C15_Witness ==
    /\ ret.op = "task"
    /\ ret.res = "ok"
    /\ ret.from = "Initializing"
    /\ tasks[ret.id].init = 2
    /\ Len(sessions) = 0
    /\ state.tag = "Paused"

\* C16: a watcher whose channel was closed with no failure sent, and a watcher
\* whose failure arrived when the controller could no longer be reached, end
\* with the phase, the lock and every session but their own record unchanged,
\* without entering stop_with_error; stop_with_error is entered only by a
\* watcher whose failure arrived while the controller was reachable.
C16_WatcherLeavesPhase ==
    /\ [][ret'.op = "watcher" =>
            /\ ret'.res \in {"closed", "unreachable"}
            /\ sessions[ret'.id].watcher = "waiting"
            /\ ret'.res = "closed" => sessions[ret'.id].chan = "closed"
            /\ ret'.res = "unreachable" => (sessions[ret'.id].chan = "sent" /\ ~alive)
            /\ state' = state
            /\ w' = w
            /\ sessions' = [sessions EXCEPT ![ret'.id].watcher = "done"]]_vars
    /\ [][(\E s \in 1..Len(sessions) :
                /\ sessions[s].watcher = "waiting"
                /\ sessions'[s].watcher # "waiting"
                /\ sessions[s].chan = "closed" \/ ~alive)
            => (ret'.op = "watcher" /\ state' = state /\ w' = w)]_vars
    /\ [][(w'.op = "stop_with_error" /\ w.op # "stop_with_error") =>
            /\ alive
            /\ sessions[w'.s].chan = "sent"
            /\ sessions[w'.s].watcher = "waiting"]_vars

\* C16 witness: a failure arrived after the controller was dropped and the
\* watcher has ended, the phase still Live
C16_Witness ==
    /\ ret.op = "watcher"
    /\ ret.res = "unreachable"
    /\ state.tag = "Live"
    /\ sessions[ret.id].watcher = "done"

\* C17: a pause that returns a failure leaves the phase exactly as it was
\* and the lock free, whatever the phase: refused in Initializing, Paused or
\* Error, or Live with the session's own pause failing (the phase stays that
\* Live session); it never leaves Error in place of another phase, nor None.
C17_FailedPauseKeepsPhase ==
    [][(ret'.op = "pause" /\ ret'.res # "ok") =>
         /\ state' = state
         /\ ret'.from = state.tag
         /\ Unlocked'
         /\ state'.tag # "None"
         /\ state.tag = "Live" =>
              /\ ret'.id = state.live
              /\ sessions'[ret'.id].pauseInvoked
              /\ state' = Live(ret'.id)]_vars

\* C17 witness: the session's own pause failed and the phase is still that
\* Live session, not paused
C17_Witness ==
    /\ ret.op = "pause"
    /\ ret.res = "err"
    /\ ret.from = "Live"
    /\ state = Live(ret.id)
    /\ sessions[ret.id].pauseInvoked
    /\ ~sessions[ret.id].paused

\* C18 as claimed: whenever a step removes a Live session from the phase,
\* that session's pause has been invoked by the end of the step.
C18_LivePausedBeforeReplaced ==
    [][(state.tag = "Live" /\ state' # state) =>
         sessions'[state.live].pauseInvoked]_vars

\* C19 as claimed: stop_with_error acts on a session's failure only when
\* that session is the current Live phase: the failure of an earlier session
\* never replaces a Paused, Initializing or newer Live phase by Error.
C19_OnlyCurrentSessionStops ==
    /\ [][(w'.op = "stop_with_error" /\ w.op # "stop_with_error") =>
            state = Live(w'.s)]_vars
    /\ [](ret.op = "stop_with_error" => ret.from = "Live")

\* C20 as claimed: a task that succeeds and installs Paused or Live over an
\* Initializing phase has verified the instance that phase holds.
C20_InstallFromCurrentInstance ==
    [][(ret'.op = "task" /\ ret'.res = "ok" /\ state.tag = "Initializing"
          /\ state'.tag \in {"Paused", "Live"})
         => tasks[ret'.id].init = state.init]_vars

\* C21 as claimed: every step that installs a Live phase creates exactly one
\* session, with its one watcher and its one peer adder, and sessions are
\* created by no other step; of the tasks spawned for the instance the
\* controller was built with (which only its own tasks can replace, so that
\* the first of them to return installs), a task that returns after another
\* has returned leaves the phase as it is and spawns nothing.
C21_OneInstallPerInstance ==
    /\ [][(state'.tag = "Live" /\ state' # state) =>
            /\ Len(sessions') = Len(sessions) + 1
            /\ state' = Live(Len(sessions'))
            /\ sessions'[Len(sessions')].watcher = "waiting"
            /\ sessions'[Len(sessions')].adder = "spawned"
            /\ \A s \in 1..Len(sessions) :
                 /\ sessions'[s].watcher = sessions[s].watcher
                 /\ sessions'[s].adder = sessions[s].adder]_vars
    /\ [][Len(sessions') # Len(sessions) =>
            (state'.tag = "Live" /\ state' # state)]_vars
    /\ [][(/\ ret'.op = "task"
           /\ tasks[ret'.id].init = 1
           /\ \E u \in 1..Len(tasks) : tasks[u].init = 1 /\ tasks[u].pc = "done")
            => (state' = state /\ sessions' = sessions)]_vars

====
